---------------------------- MODULE Spec2Model ----------------------------
(***************************************************************************)
(* A model of the two scraper modules of sport-data-scraper:               *)
(*   scraper/nfl/injuries.py  (injury report collector and batch driver)   *)
(*   scraper/nfl/players.py   (link discovery, profile parser, driver)     *)
(* Each function of the source is an operator computed the way the code    *)
(* computes it; each specification below applies one of them to inputs     *)
(* drawn from bounded sets, the fetched pages being the environment.       *)
(***************************************************************************)
EXTENDS Integers, Sequences, FiniteSets, TLC

VARIABLES inj, batch, lnk, ht, info, drv

vars == <<inj, batch, lnk, ht, info, drv>>

(***************************************************************************)
(* Bounds of the model.                                                    *)
(***************************************************************************)
MaxTables == 2
MaxRows == 3
MaxYears == 2
MaxPeriods == 2

(***************************************************************************)
(* Generic helpers.                                                        *)
(***************************************************************************)
SeqUpTo(S, n) == UNION {[1..k -> S] : k \in 0..n}

RECURSIVE Flatten(_)
Flatten(ss) == IF ss = <<>> THEN <<>> ELSE Head(ss) \o Flatten(Tail(ss))

\* Python's None and pandas' NaN, as values of the string-typed cells.
None == "None"
NaN == "NaN"

Idle == [pc |-> "unused"]

(***************************************************************************)
(* injuries.py : configuration                                             *)
(***************************************************************************)
INJURY_REPORT_BASE_URL == "https://www.nfl.com/injuries/league"

NFL_SEASON_PERIOD_LIST ==
    << "REG1", "REG2", "REG3", "REG4", "REG5", "REG6", "REG7", "REG8", "REG9",
       "REG10", "REG11", "REG12", "REG13", "REG14", "REG15", "REG16", "REG17",
       "POST1", "POST2", "POST3", "PRO1", "POST4" >>

InjuryTableClass == "d3-o-table d3-o-table--detailed d3-o-reports--detailed"

\* The lower bound of the year assertion, and int(datetime.today().strftime("%Y")).
MinYear == 1965
CurrentYear == 2026

InSeq(x, s) == \E k \in DOMAIN s : s[k] = x

(***************************************************************************)
(* A fetched injury page is the sequence of its <table> elements in        *)
(* document order; a table has a class attribute and data rows; a row has  *)
(* the columns Player and Injuries (NaN when the cell is empty).  Player   *)
(* is the row's place on the page, so that every row is distinguishable.   *)
(***************************************************************************)
TableShapes == SeqUpTo(BOOLEAN, MaxRows)

PageShapes ==
    SeqUpTo([cls : {InjuryTableClass}, has : TableShapes]
              \cup {[cls |-> "d3-o-table", has |-> <<TRUE>>]}, MaxTables)

PageOf(shape) ==
    [t \in DOMAIN shape |->
        [cls |-> shape[t].cls,
         rows |-> [r \in DOMAIN shape[t].has |->
                     [Player |-> <<t, r>>,
                      Injuries |-> IF shape[t].has[r] THEN "Knee" ELSE NaN]]]]

InjuryPages == {PageOf(s) : s \in PageShapes}

\* injury_report_soup.find_all("table", {"class": ...})
find_all_tables_AnyClass(page) == page

find_all_tables(page) == SelectSeq(page, LAMBDA e : e.cls = InjuryTableClass)

\* pd.read_html: one frame per table, each with its own index 0..n-1.
read_html(tables) ==
    [t \in DOMAIN tables |->
        [r \in DOMAIN tables[t].rows |->
            [index |-> r - 1,
             Player |-> tables[t].rows[r].Player,
             Injuries |-> tables[t].rows[r].Injuries]]]

\* pd.concat(frames): rows in order, every row keeping its frame's index.
pd_concat(frames) == Flatten(frames)

\* injury_df["Year"] = year ; injury_df["Period"] = period
annotate(df, year, period) ==
    [k \in DOMAIN df |->
        [index |-> df[k].index, Player |-> df[k].Player,
         Injuries |-> df[k].Injuries, Year |-> year, Period |-> period]]

\* injury_df.dropna(subset=["Injuries"], inplace=True)
dropna(df) == SelectSeq(df, LAMBDA row : row.Injuries # NaN)

\* injury_df.reset_index(drop=True, inplace=True)
reset_index_Skip(df) == df

reset_index(df) == [k \in DOMAIN df |-> [df[k] EXCEPT !.index = k - 1]]

injury_report_url(year, period) == <<INJURY_REPORT_BASE_URL, year, period>>

\* The two assertions of get_injury_report_df.
year_ok(year) == MinYear <= year /\ year <= CurrentYear

period_ok(period) == InSeq(period, NFL_SEASON_PERIOD_LIST)

Outcome(kind, df, requests) == [kind |-> kind, df |-> df, requests |-> requests]

\* A variant that fetches the page first and validates afterwards.
get_injury_report_df_FetchFirst(year, period, page) ==
    LET url == injury_report_url(year, period)
        tables == find_all_tables(page)
    IN  IF ~year_ok(year) \/ ~period_ok(period)
        THEN Outcome("AssertionError", <<>>, <<url>>)
        ELSE IF Len(tables) = 0
        THEN Outcome("InjuryDataNotAvailableError", <<>>, <<url>>)
        ELSE Outcome("ok",
                 reset_index(dropna(annotate(pd_concat(read_html(tables)),
                                             year, period))), <<url>>)

\* get_injury_report_df: `page` is what the GET of the url answers.
get_injury_report_df(year, period, page) ==
    IF ~year_ok(year)
    THEN Outcome("AssertionError", <<>>, <<>>)
    ELSE IF ~period_ok(period)
    THEN Outcome("AssertionError", <<>>, <<>>)
    ELSE LET url == injury_report_url(year, period)
             tables == find_all_tables(page)
         IN  IF Len(tables) = 0
             THEN Outcome("InjuryDataNotAvailableError", <<>>, <<url>>)
             ELSE Outcome("ok",
                      reset_index(dropna(annotate(pd_concat(read_html(tables)),
                                                  year, period))), <<url>>)

(***************************************************************************)
(* SpecInjury: one call of get_injury_report_df.                           *)
(***************************************************************************)
InjuryYears == {MinYear - 1, MinYear, CurrentYear, CurrentYear + 1}
InjuryPeriods == {"REG1", "POST4", "REG18", "PRE1"}

InjInit ==
    /\ inj = [pc |-> "idle", http_log |-> <<>>]
    /\ batch = Idle /\ lnk = Idle /\ ht = Idle /\ info = Idle /\ drv = Idle

CallGetInjuryReport ==
    /\ inj.pc = "idle"
    /\ \E year \in InjuryYears, period \in InjuryPeriods, page \in InjuryPages :
          LET out == get_injury_report_df(year, period, page)
          IN  inj' = [pc |-> "returned", year |-> year, period |-> period,
                      page |-> page, out |-> out,
                      http_log |-> inj.http_log \o out.requests]
    /\ UNCHANGED <<batch, lnk, ht, info, drv>>

InjNext == CallGetInjuryReport

SpecInjury == InjInit /\ [][InjNext]_vars

InjReturned == inj.pc = "returned"

\* Where the rows of the matching tables that have an injury text sit on the page.
InjuryPlaces(page) ==
    {<<t, r>> \in (1..MaxTables + 1) \X (1..MaxRows + 1) :
        /\ t \in DOMAIN page
        /\ page[t].cls = InjuryTableClass
        /\ r \in DOMAIN page[t].rows
        /\ page[t].rows[r].Injuries # NaN}

PlaceBefore(a, b) == a[1] < b[1] \/ (a[1] = b[1] /\ a[2] < b[2])

HasInjuryTable(page) == \E t \in DOMAIN page : page[t].cls = InjuryTableClass

\* C1: a call whose year is outside [1965, current year] or whose period is
\* not an enumerated code is rejected by the precondition, and no HTTP
\* request has been issued.
C1_RejectedBeforeRequest ==
    (InjReturned /\ (~(inj.year \in MinYear..CurrentYear)
                       \/ ~(inj.period \in {NFL_SEASON_PERIOD_LIST[k] :
                                              k \in DOMAIN NFL_SEASON_PERIOD_LIST})))
    => /\ inj.out.kind = "AssertionError"
       /\ inj.out.requests = <<>>
       /\ inj.http_log = <<>>

C1_Witness ==
    /\ InjReturned
    /\ inj.year = CurrentYear + 1
    /\ inj.period = "REG1"
    /\ HasInjuryTable(inj.page)
    /\ inj.out.kind = "AssertionError"

\* C2: with a valid year and period and one or more matching tables, the
\* result is exactly the rows of those tables that have an injury text, in
\* page order, each carrying the year and the period, indexed 0..n-1.
C2_RowsConcatenatedAndRenumbered ==
    (InjReturned /\ year_ok(inj.year) /\ period_ok(inj.period)
                 /\ HasInjuryTable(inj.page))
    => LET df == inj.out.df
           want == InjuryPlaces(inj.page)
       IN  /\ inj.out.kind = "ok"
           /\ Len(df) = Cardinality(want)
           /\ {df[k].Player : k \in DOMAIN df} = want
           /\ \A k \in DOMAIN df :
                 /\ df[k].index = k - 1
                 /\ df[k].Year = inj.year
                 /\ df[k].Period = inj.period
                 /\ df[k].Injuries =
                      inj.page[df[k].Player[1]].rows[df[k].Player[2]].Injuries
           /\ \A j, k \in DOMAIN df : j < k => PlaceBefore(df[j].Player, df[k].Player)

\* Two tables, five rows in total, two of them without an injury text.
C2_Witness ==
    /\ InjReturned
    /\ inj.out.kind = "ok"
    /\ Len(inj.page) = 2
    /\ \A t \in DOMAIN inj.page : inj.page[t].cls = InjuryTableClass
    /\ Len(inj.page[1].rows) + Len(inj.page[2].rows) = 5
    /\ Cardinality(InjuryPlaces(inj.page)) = 3
    /\ inj.page[1].rows[1].Injuries = NaN
    /\ Len(inj.out.df) = 3

\* C8: with a valid year and period, InjuryDataNotAvailableError is raised
\* exactly when the page holds no table of the injury-report class, and then
\* no records are returned.
C8_NotAvailableIffNoTable ==
    InjReturned
    => /\ (inj.out.kind = "InjuryDataNotAvailableError")
            <=> (/\ inj.year \in MinYear..CurrentYear
                 /\ period_ok(inj.period)
                 /\ ~HasInjuryTable(inj.page))
       /\ (inj.out.kind = "InjuryDataNotAvailableError" => inj.out.df = <<>>)

C8_Witness ==
    /\ InjReturned
    /\ inj.out.kind = "InjuryDataNotAvailableError"
    /\ Len(inj.page) > 0
    /\ inj.out.requests = <<injury_report_url(inj.year, inj.period)>>


(***************************************************************************)
(* scrape_nfl_injury_data: the batch driver.  One action per iteration of  *)
(* the inner loop, one for the concatenation after the loops.  `web` is    *)
(* what each (year, period) url answers during the run.                    *)
(***************************************************************************)
BatchYearVals == {2020, 2021, CurrentYear + 1}
BatchPeriodVals == {"REG1", "POST1"}

BatchPages ==
    {PageOf(s) : s \in {<<>>,
                        <<[cls |-> InjuryTableClass, has |-> <<TRUE>>]>>,
                        <<[cls |-> InjuryTableClass, has |-> <<FALSE, TRUE>>]>>}}

BatchWebs == [{y \in BatchYearVals : year_ok(y)} \X BatchPeriodVals -> BatchPages]

PageAt(web, year, period) ==
    IF <<year, period>> \in DOMAIN web THEN web[<<year, period>>] ELSE <<>>

\* The pairs visited by `for year in years: for period in periods:`.
NumPairs(years, periods) == Len(years) * Len(periods)

PairAt(years, periods, k) ==
    <<years[((k - 1) \div Len(periods)) + 1], periods[((k - 1) % Len(periods)) + 1]>>

\* The try/except of the loop body applied to the collector's outcome.
scrape_try(list, out) ==
    IF out.kind = "ok"
    THEN [list |-> Append(list, out.df), raised |-> None]
    ELSE IF out.kind = "InjuryDataNotAvailableError"
    THEN [list |-> list, raised |-> None]
    ELSE [list |-> list, raised |-> out.kind]

\* scraped_output_df = pd.concat(scraped_output_df_list): pandas raises
\* ValueError("No objects to concatenate") on an empty list.
scrape_concat(list) ==
    IF list = <<>>
    THEN [raised |-> "ValueError", df |-> <<>>]
    ELSE [raised |-> None, df |-> pd_concat(list)]

BatchInit ==
    /\ \E years \in SeqUpTo(BatchYearVals, MaxYears),
          periods \in SeqUpTo(BatchPeriodVals, MaxPeriods),
          web \in BatchWebs :
          batch = [pc |-> "loop", years |-> years, periods |-> periods,
                   web |-> web, k |-> 0, scraped_output_df_list |-> <<>>,
                   calls |-> <<>>, raised |-> None, result |-> <<>>]
    /\ inj = Idle /\ lnk = Idle /\ ht = Idle /\ info = Idle /\ drv = Idle

BatchIteration ==
    /\ batch.pc = "loop"
    /\ batch.k < NumPairs(batch.years, batch.periods)
    /\ LET pair == PairAt(batch.years, batch.periods, batch.k + 1)
           out == get_injury_report_df(pair[1], pair[2],
                                       PageAt(batch.web, pair[1], pair[2]))
           step == scrape_try(batch.scraped_output_df_list, out)
       IN  batch' = [batch EXCEPT
                        !.k = batch.k + 1,
                        !.calls = Append(batch.calls, pair),
                        !.scraped_output_df_list = step.list,
                        !.raised = step.raised,
                        !.pc = IF step.raised = None THEN "loop" ELSE "raised"]
    /\ UNCHANGED <<inj, lnk, ht, info, drv>>

BatchConcat ==
    /\ batch.pc = "loop"
    /\ batch.k = NumPairs(batch.years, batch.periods)
    /\ LET fin == scrape_concat(batch.scraped_output_df_list)
       IN  batch' = [batch EXCEPT
                        !.raised = fin.raised,
                        !.result = fin.df,
                        !.pc = IF fin.raised = None THEN "done" ELSE "raised"]
    /\ UNCHANGED <<inj, lnk, ht, info, drv>>

BatchNext == BatchIteration \/ BatchConcat

SpecBatch == BatchInit /\ [][BatchNext]_vars

BatchEnded == batch.pc \in {"done", "raised"}

BatchInputsValid ==
    /\ \A i \in DOMAIN batch.years : batch.years[i] \in MinYear..CurrentYear
    /\ \A j \in DOMAIN batch.periods : period_ok(batch.periods[j])

PairAvailable(pair) == HasInjuryTable(PageAt(batch.web, pair[1], pair[2]))

\* The rows the claim expects of one pair: those of its page, when available.
PairRows(pair) ==
    IF PairAvailable(pair)
    THEN get_injury_report_df(pair[1], pair[2],
                              PageAt(batch.web, pair[1], pair[2])).df
    ELSE <<>>

\* C3: whichever pages are unavailable (possibly all of them), the driver
\* invokes the collector once per (year, period) pair in year-major order,
\* absorbs every InjuryDataNotAvailableError, and finishes by returning the
\* in-order concatenation of the results of the pairs that succeeded.
C3_BatchReturnsCombinedTable ==
    (BatchEnded /\ BatchInputsValid /\ NumPairs(batch.years, batch.periods) > 0)
    => LET n == NumPairs(batch.years, batch.periods)
       IN  /\ batch.pc = "done"
           /\ batch.calls = [k \in 1..n |-> PairAt(batch.years, batch.periods, k)]
           /\ batch.result =
                Flatten([k \in 1..n |->
                           PairRows(PairAt(batch.years, batch.periods, k))])

\* What the code does guarantee: every absorbed pair is followed by the next
\* one, and a run that returns, returns the concatenation.
BatchReturnsWhenSomePairSucceeds ==
    (BatchEnded /\ BatchInputsValid
       /\ \E k \in 1..NumPairs(batch.years, batch.periods) :
             PairAvailable(PairAt(batch.years, batch.periods, k)))
    => LET n == NumPairs(batch.years, batch.periods)
       IN  /\ batch.pc = "done"
           /\ batch.calls = [k \in 1..n |-> PairAt(batch.years, batch.periods, k)]
           /\ batch.result =
                Flatten([k \in 1..n |->
                           PairRows(PairAt(batch.years, batch.periods, k))])


(***************************************************************************)
(* players.py : strings.  A text is the sequence of its characters; the    *)
(* helpers below are str.split(), str.split(delimiter) and int() on it.    *)
(* (The texts of the model hold letters, digits, brackets, "-" and the     *)
(* space; int() is modelled on that alphabet.)                             *)
(***************************************************************************)
Digits == <<"0", "1", "2", "3", "4", "5", "6", "7", "8", "9">>

IsDigit(c) == InSeq(c, Digits)

DigitVal(c) == (CHOOSE d \in DOMAIN Digits : Digits[d] = c) - 1

RECURSIVE SplitAcc(_, _, _, _)
SplitAcc(s, d, cur, acc) ==
    IF s = <<>> THEN Append(acc, cur)
    ELSE IF Head(s) = d THEN SplitAcc(Tail(s), d, <<>>, Append(acc, cur))
    ELSE SplitAcc(Tail(s), d, Append(cur, Head(s)), acc)

\* s.split(d): the pieces between the delimiters, empty ones kept.
str_split(s, d) == SplitAcc(s, d, <<>>, <<>>)

\* s.split(): the maximal runs of non-whitespace characters.
str_split_ws(s) == SelectSeq(str_split(s, " "), LAMBDA t : t # <<>>)

\* int(s) succeeds on a non-empty run of digits and raises ValueError otherwise.
int_ok(s) == s # <<>> /\ \A k \in DOMAIN s : IsDigit(s[k])

RECURSIVE py_int(_)
py_int(s) ==
    IF s = <<>> THEN 0
    ELSE py_int(SubSeq(s, 1, Len(s) - 1)) * 10 + DigitVal(s[Len(s)])

(***************************************************************************)
(* gather_player_links.  An index page is the sequence of its <a> elements *)
(* in document order.  An anchor has its href, its parent's tag name (when *)
(* it has a parent) and the text of its grandparent (when it has one).     *)
(* `bold` and `start` record what the anchor was rendered from: whether it *)
(* stands in a <b>, and the first year of the year range after it          *)
(* (NoYear when the text has none, else <<y>>).                             *)
(***************************************************************************)
MaxAnchors == 3
NoYear == <<>>
Year(y) == <<y>>

Anchor(dir, letter, parent, has_gp, text, start) ==
    [dir |-> dir, letter |-> letter,
     has_parent |-> parent # None, parent_name |-> parent,
     has_grandparent |-> has_gp, text |-> text,
     bold |-> (parent = "b"), start |-> start]

T_2018 == <<"X", " ", "(", "Q", "B", ")", " ", "2", "0", "1", "8", "-", "2", "0", "2", "1">>
T_2010 == <<"X", " ", "(", "Q", "B", ")", " ", "2", "0", "1", "0", "-", "2", "0", "1", "5">>
T_2020 == <<"X", " ", "(", "R", "B", ")", " ", "2", "0", "2", "0", "-", "2", "0", "2", "1">>
T_2016 == <<"X", " ", "2", "0", "1", "6", "-", "2", "0", "1", "6">>
T_2019 == <<"X", " ", "(", "W", "R", ")", " ", "2", "0", "1", "9">>
T_NoYear == <<"X", " ", "(", "Q", "B", ")">>
T_Dash == <<"X", " ", "-", "2", "0", "1", "8">>

AnchorKinds ==
    { Anchor("players", "A", "b", TRUE, T_2018, Year(2018)),
      Anchor("players", "A", "b", TRUE, T_2010, Year(2010)),
      Anchor("players", "A", "p", TRUE, T_2020, Year(2020)),
      Anchor("players", "A", "b", TRUE, T_2016, Year(2016)),
      Anchor("players", "A", "b", TRUE, T_2019, Year(2019)),
      Anchor("teams", "A", "b", TRUE, T_2018, Year(2018)),
      Anchor("players", "B", "b", TRUE, T_2018, Year(2018)),
      Anchor("players", "A", None, FALSE, <<>>, NoYear),
      Anchor("players", "A", "b", FALSE, <<>>, NoYear),
      Anchor("players", "A", "b", TRUE, <<>>, NoYear),
      Anchor("players", "A", "b", TRUE, T_NoYear, NoYear),
      Anchor("players", "A", "b", TRUE, T_Dash, NoYear) }

\* The href of the k-th anchor of a page: "/<dir>/<letter>/<slug k>.htm".
IndexPageOf(kinds) ==
    [k \in DOMAIN kinds |->
        [href |-> <<kinds[k].dir, kinds[k].letter, k>>, tag |-> kinds[k]]]

IndexPages == {IndexPageOf(ks) : ks \in SeqUpTo(AnchorKinds, MaxAnchors)}

\* re.compile(f"(\/players\/{letter}\/)(.*)(\.htm)") against the href.
href_matches(href, letter) == href[1] = "players" /\ href[2] = letter

find_all_anchors(page, letter) ==
    SelectSeq(page, LAMBDA a : href_matches(a.href, letter))

\* The body of the loop for one tag: "append", "skip" (the condition is
\* false, or AttributeError was caught) or the exception that escapes.
visit_tag_StrictlyAfter(tag, start_threshold) ==
    IF ~tag.has_parent THEN "skip"
    ELSE IF tag.parent_name # "b" THEN "skip"
    ELSE IF ~tag.has_grandparent THEN "skip"
    ELSE LET tokens == str_split_ws(tag.text)
         IN  IF tokens = <<>> THEN "IndexError"
             ELSE LET first == str_split(tokens[Len(tokens)], "-")[1]
                  IN  IF ~int_ok(first) THEN "ValueError"
                      ELSE IF py_int(first) > start_threshold THEN "append"
                      ELSE "skip"

visit_tag(tag, start_threshold) ==
    IF ~tag.has_parent THEN "skip"                    \* None.name: AttributeError
    ELSE IF tag.parent_name # "b" THEN "skip"
    ELSE IF ~tag.has_grandparent THEN "skip"          \* None.text: AttributeError
    ELSE LET tokens == str_split_ws(tag.text)
         IN  IF tokens = <<>> THEN "IndexError"       \* [][-1]
             ELSE LET first == str_split(tokens[Len(tokens)], "-")[1]
                  IN  IF ~int_ok(first) THEN "ValueError"
                      ELSE IF py_int(first) >= start_threshold THEN "append"
                      ELSE "skip"

RECURSIVE links_loop(_, _, _)
links_loop(tags, start_threshold, player_links_list) ==
    IF tags = <<>> THEN [kind |-> "ok", links |-> player_links_list]
    ELSE LET r == visit_tag(Head(tags).tag, start_threshold)
         IN  IF r = "append"
             THEN links_loop(Tail(tags), start_threshold,
                             Append(player_links_list, Head(tags).href))
             ELSE IF r = "skip"
             THEN links_loop(Tail(tags), start_threshold, player_links_list)
             ELSE [kind |-> r, links |-> <<>>]

gather_player_links(page, letter, start_threshold) ==
    links_loop(find_all_anchors(page, letter), start_threshold, <<>>)

(***************************************************************************)
(* SpecLinks: one call of gather_player_links.                             *)
(***************************************************************************)
Thresholds == {2016, 2019}

LinksInit ==
    /\ \E page \in IndexPages, th \in Thresholds :
          lnk = [pc |-> "called", page |-> page, letter |-> "A",
                 start_threshold |-> th]
    /\ inj = Idle /\ batch = Idle /\ ht = Idle /\ info = Idle /\ drv = Idle

CallGatherPlayerLinks ==
    /\ lnk.pc = "called"
    /\ lnk' = [pc |-> "ended", page |-> lnk.page, letter |-> lnk.letter,
               start_threshold |-> lnk.start_threshold,
               out |-> gather_player_links(lnk.page, lnk.letter,
                                           lnk.start_threshold)]
    /\ UNCHANGED <<inj, batch, ht, info, drv>>

LinksNext == CallGatherPlayerLinks

SpecLinks == LinksInit /\ [][LinksNext]_vars

LinksEnded == lnk.pc = "ended"

\* The anchor at place k is a candidate: its href matches /players/<letter>/...
Candidate(k) ==
    lnk.page[k].href[1] = "players" /\ lnk.page[k].href[2] = lnk.letter

\* ... and it qualifies: it is bold and its first year is >= the threshold.
Qualifies(k) ==
    /\ Candidate(k)
    /\ lnk.page[k].tag.bold
    /\ lnk.page[k].tag.start # NoYear
    /\ lnk.page[k].tag.start[1] >= lnk.start_threshold

LinksAreQualifying(links) ==
    /\ {links[i][3] : i \in DOMAIN links} = {k \in DOMAIN lnk.page : Qualifies(k)}
    /\ \A i \in DOMAIN links : links[i] = lnk.page[links[i][3]].href
    /\ \A i, j \in DOMAIN links : i < j => links[i][3] < links[j][3]

\* C6: the call returns, in document order, exactly the hrefs of the
\* matching anchors that are bold and whose first year is >= the threshold
\* (and it does return when every bold matching anchor has a year range).
C6_ReturnsBoldRecentLinks ==
    LinksEnded
    => /\ (lnk.out.kind = "ok" => LinksAreQualifying(lnk.out.links))
       /\ (\A k \in DOMAIN lnk.page :
              (Candidate(k) /\ lnk.page[k].tag.bold) => lnk.page[k].tag.start # NoYear)
            => lnk.out.kind = "ok"

\* bold/2018, bold/2010, non-bold/2020 with threshold 2016: the first href only.
C6_Witness ==
    /\ LinksEnded
    /\ lnk.start_threshold = 2016
    /\ Len(lnk.page) = 3
    /\ lnk.page[1].tag.bold /\ lnk.page[1].tag.start = Year(2018) /\ Candidate(1)
    /\ lnk.page[2].tag.bold /\ lnk.page[2].tag.start = Year(2010) /\ Candidate(2)
    /\ ~lnk.page[3].tag.bold /\ lnk.page[3].tag.start = Year(2020) /\ Candidate(3)
    /\ lnk.out = [kind |-> "ok", links |-> <<lnk.page[1].href>>]

\* C10: a candidate whose surrounding structure has not the expected shape
\* (no parent, no grandparent, empty adjacent text, a last token that does
\* not begin with a year) is skipped without raising: the call completes
\* and returns the links of the remaining qualifying anchors.
C10_MalformedAnchorsSkipped ==
    LinksEnded => (lnk.out.kind = "ok" /\ LinksAreQualifying(lnk.out.links))


(***************************************************************************)
(* ft_in_to_cm.  The products are taken in hundredths of a centimetre:     *)
(* 30.48 is 3048 and 2.48 is 248, and int() of the sum is its quotient by  *)
(* 100 (the operands are never negative).                                  *)
(***************************************************************************)
MaxFeet == 9
MaxInches == 12

FootHundredths == 3048
InchHundredths == 248

ft_in_to_cm_ExactInch(ft_in, delimiter) ==
    LET ft_in_split_str == str_split(ft_in, delimiter)
    IN  IF Len(ft_in_split_str) < 2 THEN [kind |-> "IndexError", cm |-> 0]
        ELSE LET fts == ft_in_split_str[1]
                 inches == ft_in_split_str[2]
             IN  IF ~int_ok(fts) \/ ~int_ok(inches)
                 THEN [kind |-> "ValueError", cm |-> 0]
                 ELSE [kind |-> "ok",
                       cm |-> (py_int(fts) * FootHundredths
                                 + py_int(inches) * 254) \div 100]

ft_in_to_cm(ft_in, delimiter) ==
    LET ft_in_split_str == str_split(ft_in, delimiter)
    IN  IF Len(ft_in_split_str) < 2 THEN [kind |-> "IndexError", cm |-> 0]
        ELSE LET fts == ft_in_split_str[1]
                 inches == ft_in_split_str[2]
             IN  IF ~int_ok(fts) \/ ~int_ok(inches)
                 THEN [kind |-> "ValueError", cm |-> 0]
                 ELSE [kind |-> "ok",
                       cm |-> (py_int(fts) * FootHundredths
                                 + py_int(inches) * InchHundredths) \div 100]

\* The decimal numeral of a natural number, as the page prints it.
RECURSIVE Numeral(_)
Numeral(n) ==
    IF n < 10 THEN <<Digits[n + 1]>>
    ELSE Append(Numeral(n \div 10), Digits[(n % 10) + 1])

HeightText(f, i) == Numeral(f) \o <<"-">> \o Numeral(i)

(***************************************************************************)
(* SpecHeight: one call of ft_in_to_cm on the text "f-i".                  *)
(***************************************************************************)
HeightInit ==
    /\ \E f \in 0..MaxFeet, i \in 0..MaxInches :
          ht = [pc |-> "called", feet |-> f, inches |-> i,
                ft_in |-> HeightText(f, i)]
    /\ inj = Idle /\ batch = Idle /\ lnk = Idle /\ info = Idle /\ drv = Idle

CallFtInToCm ==
    /\ ht.pc = "called"
    /\ ht' = [pc |-> "ended", feet |-> ht.feet, inches |-> ht.inches,
              ft_in |-> ht.ft_in, out |-> ft_in_to_cm(ht.ft_in, "-")]
    /\ UNCHANGED <<inj, batch, lnk, info, drv>>

HeightNext == CallFtInToCm

SpecHeight == HeightInit /\ [][HeightNext]_vars

HeightEnded == ht.pc = "ended"

\* C9 as stated: ft_in_to_cm("6-2") returns 208.
C9_SixTwoIs208 ==
    (HeightEnded /\ ht.ft_in = <<"6", "-", "2">>) => ht.out.cm = 208

\* C9 as amended: for "f-i" the result is (f*3048 + i*248) div 100, the value
\* of f*30.48 + i*2.48 truncated toward zero, which is 187 for "6-2".
C9_TruncatedHundredths ==
    HeightEnded
    => /\ ht.out.kind = "ok"
       /\ ht.out.cm = (ht.feet * 3048 + ht.inches * 248) \div 100
       /\ (ht.feet = 6 /\ ht.inches = 2) => ht.out.cm = 187

C9_Witness ==
    /\ HeightEnded
    /\ ht.ft_in = <<"6", "-", "2">>
    /\ ht.out = [kind |-> "ok", cm |-> 187]


(***************************************************************************)
(* gather_player_info.  A player page (soup) has the info container        *)
(* div#info.players and the div.stats_pullout container.  An element that  *)
(* may be missing is <<>> when absent and <<value>> when present.          *)
(* The stats container is the sequence of its child groups, each group the *)
(* sequence of its children: <span data-tip=...> markers and <p>           *)
(* paragraphs (a paragraph's contents being its child nodes).              *)
(***************************************************************************)
MaxParagraphs == 2

StatKeys ==
    << "games_played", "approx_val", "qbrec", "cmp_pct", "yds_pass", "ya_pass",
       "passing_td", "int_thrown", "sacks", "solo", "ff", "rec", "yds_receive",
       "yr", "receiving_td", "rush", "yds_rush", "ya_rush", "rushing_td",
       "fantpt" >>

StatKeySet == {StatKeys[k] : k \in DOMAIN StatKeys}

\* The tooltip of each statistic (the long ones cut at their first sentence).
Datatip ==
    [key \in StatKeySet |->
        CASE key = "games_played" -> "Games played"
          [] key = "approx_val" -> "Approximate Value is our attempt to attach a single number to every player-season since 1960."
          [] key = "qbrec" -> "Team record in games started by this QB (regular season)"
          [] key = "cmp_pct" -> "Percentage of Passes Completed"
          [] key = "yds_pass" -> "Yards Gained by Passing"
          [] key = "ya_pass" -> "Yards gained per pass attempt "
          [] key = "passing_td" -> "Passing Touchdowns"
          [] key = "int_thrown" -> "Interceptions thrown"
          [] key = "sacks" -> "Sacks (official since 1982,"
          [] key = "solo" -> "Tackles"
          [] key = "ff" -> "Number of times forced a fumble by the opposition recovered by either team"
          [] key = "rec" -> "Receptions"
          [] key = "yds_receive" -> "Receiving Yards"
          [] key = "yr" -> "Receiving Yards per Reception"
          [] key = "receiving_td" -> "Receiving Touchdowns"
          [] key = "rush" -> "Rushing Attempts (sacks not included in NFL)"
          [] key = "yds_rush" -> "Rushing Yards Gained (sack yardage is not included by NFL)"
          [] key = "ya_rush" -> "Rushing Yards per Attempt"
          [] key = "rushing_td" -> "Rushing Touchdowns"
          [] key = "fantpt" -> "<b>Fantasy points:</b>"]

Span(tip) == [name |-> "span", tip |-> tip, contents |-> <<>>]
Paragraph(contents) == [name |-> "p", tip |-> "", contents |-> contents]

\* element_tag.find("span", {"data-tip": datatip}): the first in document order.
find_span(element_tag, datatip) ==
    LET hits == {<<g, n>> \in (DOMAIN element_tag.groups) \X (1..(MaxParagraphs + 3)) :
                    /\ n \in DOMAIN element_tag.groups[g]
                    /\ element_tag.groups[g][n].name = "span"
                    /\ element_tag.groups[g][n].tip = datatip}
    IN  IF hits = {} THEN <<>>
        ELSE <<CHOOSE h \in hits : \A o \in hits : h = o \/ PlaceBefore(h, o)>>

\* tag.find_next_siblings("p"): the later children of the same parent that are <p>.
find_next_siblings_p(element_tag, at) ==
    LET group == element_tag.groups[at[1]]
    IN  SelectSeq(SubSeq(group, at[2] + 1, Len(group)), LAMBDA n : n.name = "p")

get_career_stat_from_datatip_First(element_tag, datatip) ==
    IF ~element_tag.present THEN None
    ELSE LET span == find_span(element_tag, datatip)
         IN  IF span = <<>> THEN None
             ELSE LET ps == find_next_siblings_p(element_tag, span[1])
                  IN  IF ps = <<>> THEN None
                      ELSE IF ps[1].contents = <<>> THEN None
                      ELSE ps[1].contents[1]

get_career_stat_from_datatip(element_tag, datatip) ==
    IF ~element_tag.present THEN None                    \* None.find: AttributeError
    ELSE LET span == find_span(element_tag, datatip)
         IN  IF span = <<>> THEN None                    \* AttributeError
             ELSE LET ps == find_next_siblings_p(element_tag, span[1])
                  IN  IF ps = <<>> THEN None             \* [][-1]: IndexError
                      ELSE IF ps[Len(ps)].contents = <<>>
                      THEN None                          \* contents[0]: IndexError
                      ELSE ps[Len(ps)].contents[1]

UpperCase ==
    {"A", "B", "C", "D", "E", "F", "G", "H", "I", "J", "K", "L", "M", "N", "O",
     "P", "Q", "R", "S", "T", "U", "V", "W", "X", "Y", "Z"}

\* The biographical fields, in the order the code reads them; the first
\* exception raised is the one that escapes.  `position` is the text after
\* "Position", past its ": ".
bio_error(tag) ==
    IF ~tag.present THEN "AttributeError"
    ELSE IF tag.name = <<>> THEN "AttributeError"
    ELSE IF tag.team = <<>> THEN "AttributeError"
    ELSE IF tag.position = <<>> THEN "AttributeError"
    ELSE IF tag.position[1] = <<>> \/ ~(tag.position[1][1] \in UpperCase)
    THEN "TypeError"
    ELSE IF tag.height = <<>> THEN "AttributeError"
    ELSE IF ft_in_to_cm(tag.height[1], "-").kind # "ok"
    THEN ft_in_to_cm(tag.height[1], "-").kind
    ELSE IF tag.weight = <<>> THEN "AttributeError"
    ELSE IF tag.birth_date = <<>> THEN "TypeError"
    ELSE None

career_stats(player_career_stats_tag) ==
    [key \in StatKeySet |->
        get_career_stat_from_datatip(player_career_stats_tag, Datatip[key])]

gather_player_info(player_soup) ==
    LET player_info_tag == player_soup.info_tag
        err == bio_error(player_info_tag)
    IN  IF err # None THEN [kind |-> err]
        ELSE [kind |-> "ok",
              player_info |->
                [name |-> player_info_tag.name[1],
                 team |-> player_info_tag.team[1],
                 position |-> player_info_tag.position[1][1],
                 height |-> ft_in_to_cm(player_info_tag.height[1], "-").cm,
                 weight |-> player_info_tag.weight[1],
                 birth_date |-> player_info_tag.birth_date[1],
                 awards |-> player_info_tag.awards,
                 career_stats |-> career_stats(player_soup.stats_tag)]]

(***************************************************************************)
(* Player pages of the model.                                              *)
(***************************************************************************)
InfoTag(name, team, position, height, weight, birth_date) ==
    [present |-> TRUE, name |-> name, team |-> team, position |-> position,
     height |-> height, weight |-> weight, birth_date |-> birth_date,
     awards |-> <<>>]

NoInfoTag == [present |-> FALSE]

BradyTag == InfoTag(<<"Tom Brady">>, <<"Buccaneers">>, <<(<<"Q", "B">>)>>,
                    <<HeightText(6, 4)>>, <<"225lb">>, <<"1977-08-03">>)
DonaldTag == InfoTag(<<"Aaron Donald">>, <<"Rams">>, <<(<<"D", "T">>)>>,
                     <<HeightText(6, 1)>>, <<"280lb">>, <<"1991-05-23">>)
FreeAgentTag == InfoTag(<<"Free Agent">>, <<>>, <<(<<"W", "R">>)>>,
                        <<HeightText(6, 0)>>, <<"200lb">>, <<"1995-01-01">>)
NoBirthTag == InfoTag(<<"No Birth">>, <<"Jets">>, <<(<<"K">>)>>,
                      <<HeightText(5, 11)>>, <<"190lb">>, <<>>)

CompleteTags == {BradyTag, DonaldTag}
InfoTags == CompleteTags \cup {FreeAgentTag, NoBirthTag, NoInfoTag}

\* How one statistic is laid out: whether its marker is there, whether a
\* paragraph precedes the marker, and for each paragraph after the marker
\* whether it has a text.
StatLayouts ==
    {[marker |-> FALSE, before |-> FALSE, paras |-> <<TRUE>>]}
      \cup [marker : {TRUE}, before : BOOLEAN, paras : SeqUpTo(BOOLEAN, MaxParagraphs)]

\* The layouts given to the statistics other than the one that is varied.
RestLayouts ==
    {[marker |-> FALSE, before |-> FALSE, paras |-> <<TRUE>>],
     [marker |-> TRUE, before |-> FALSE, paras |-> <<TRUE>>]}

ParagraphTexts == <<"3", "161", "12", "7", "45">>

GroupOf(key, layout) ==
    (IF layout.before THEN <<Paragraph(<<"0">>)>> ELSE <<>>)
      \o (IF layout.marker THEN <<Span(Datatip[key])>> ELSE <<>>)
      \o [k \in DOMAIN layout.paras |->
            Paragraph(IF layout.paras[k] THEN <<ParagraphTexts[k]>> ELSE <<>>)]

StatsTag(layouts) ==
    [present |-> TRUE,
     groups |-> [k \in DOMAIN StatKeys |-> GroupOf(StatKeys[k], layouts[StatKeys[k]])]]

NoStatsTag == [present |-> FALSE]

\* Every statistic laid out as `rest`, but `key` as `one`.
LayoutsOf(key, one, rest) == [k \in StatKeySet |-> IF k = key THEN one ELSE rest]

(***************************************************************************)
(* SpecInfo: one call of gather_player_info.                               *)
(***************************************************************************)
InfoInit ==
    /\ \E tag \in InfoTags :
          \/ \E key \in StatKeySet, one \in StatLayouts, rest \in RestLayouts :
                info = [pc |-> "called",
                        layouts |-> LayoutsOf(key, one, rest),
                        soup |-> [info_tag |-> tag,
                                  stats_tag |-> StatsTag(LayoutsOf(key, one, rest))]]
          \/ \E rest \in RestLayouts :
                info = [pc |-> "called",
                        layouts |-> LayoutsOf("sacks", rest, rest),
                        soup |-> [info_tag |-> tag, stats_tag |-> NoStatsTag]]
    /\ inj = Idle /\ batch = Idle /\ lnk = Idle /\ ht = Idle /\ drv = Idle

CallGatherPlayerInfo ==
    /\ info.pc = "called"
    /\ info' = [pc |-> "ended", layouts |-> info.layouts, soup |-> info.soup,
                out |-> gather_player_info(info.soup)]
    /\ UNCHANGED <<inj, batch, lnk, ht, drv>>

InfoNext == CallGatherPlayerInfo

SpecInfo == InfoInit /\ [][InfoNext]_vars

InfoEnded == info.pc = "ended"

BioPresent == info.soup.info_tag \in CompleteTags

MarkerAndSibling(key) ==
    /\ info.soup.stats_tag.present
    /\ info.layouts[key].marker
    /\ info.layouts[key].paras # <<>>

LastParagraphHasText(key) ==
    info.layouts[key].paras[Len(info.layouts[key].paras)]

MaxLinks == 2
SleepSeconds == 5
DefaultStartYear == 2016

ALPHABETS_LIST == <<"A", "B">>

DriverIndexPages(letter) ==
    {IndexPageOf(ks) :
        ks \in SeqUpTo({Anchor("players", letter, "b", TRUE, T_2018, Year(2018)),
                        Anchor("players", letter, "b", TRUE, T_2010, Year(2010)),
                        Anchor("players", letter, "b", TRUE, T_NoYear, NoYear)},
                       MaxLinks)}

SacksOnly ==
    LayoutsOf("sacks", [marker |-> TRUE, before |-> FALSE, paras |-> <<TRUE>>],
              [marker |-> FALSE, before |-> FALSE, paras |-> <<TRUE>>])
GamesOnly ==
    LayoutsOf("games_played",
              [marker |-> TRUE, before |-> FALSE, paras |-> <<TRUE, TRUE>>],
              [marker |-> FALSE, before |-> FALSE, paras |-> <<TRUE>>])

Soup(tag, layouts) == [info_tag |-> tag, stats_tag |-> StatsTag(layouts)]

\* What the GET of a player link answers: a page, a ConnectionResetError,
\* or another transport error (requests' ConnectionError).
DriverFetches ==
    {[kind |-> "soup", soup |-> Soup(BradyTag, GamesOnly)],
     [kind |-> "soup", soup |-> Soup(BradyTag, SacksOnly)],
     [kind |-> "soup", soup |-> Soup(DonaldTag, SacksOnly)],
     [kind |-> "soup", soup |-> [info_tag |-> NoInfoTag, stats_tag |-> NoStatsTag]],
     [kind |-> "soup", soup |-> Soup(NoBirthTag, GamesOnly)],
     [kind |-> "ConnectionResetError"],
     [kind |-> "ConnectionError"]}

\* get_player_soup: the page, or the exception of requests.get.
get_player_soup(fetch) ==
    IF fetch.kind = "soup" THEN [kind |-> "ok", soup |-> fetch.soup]
    ELSE [kind |-> fetch.kind]

Step(list, slept, raised, outcome) ==
    [list |-> list, slept |-> slept, raised |-> raised, outcome |-> outcome]

\* A variant whose handler of ConnectionResetError is missing.
try_player_link_NoResetHandler(player_info_list, slept, fetch) ==
    LET got == get_player_soup(fetch)
    IN  IF got.kind # "ok"
        THEN Step(player_info_list, slept, got.kind, got.kind)
        ELSE LET parsed == gather_player_info(got.soup)
             IN  IF parsed.kind = "ok"
                 THEN Step(Append(player_info_list, parsed.player_info), slept, None, "ok")
                 ELSE IF parsed.kind = "AttributeError"
                 THEN Step(player_info_list, slept, None, "AttributeError")
                 ELSE Step(player_info_list, slept, parsed.kind, parsed.kind)

\* The try/except of the loop body for one player link.
try_player_link(player_info_list, slept, fetch) ==
    LET got == get_player_soup(fetch)
    IN  IF got.kind = "ConnectionResetError"
        THEN Step(player_info_list, slept + SleepSeconds, None, got.kind)
        ELSE IF got.kind # "ok"
        THEN Step(player_info_list, slept, got.kind, got.kind)
        ELSE LET parsed == gather_player_info(got.soup)
             IN  IF parsed.kind = "ok"
                 THEN Step(Append(player_info_list, parsed.player_info), slept, None, "ok")
                 ELSE IF parsed.kind = "AttributeError"
                 THEN Step(player_info_list, slept, None, "AttributeError")
                 ELSE Step(player_info_list, slept, parsed.kind, parsed.kind)

IdentityKey(row) ==
    <<row.name, row.team, row.position, row.height, row.weight, row.birth_date>>

\* pd.json_normalize(player_info_list): one row per profile, in order (the
\* career_stats sub-mapping becomes the columns career_stats.<key>).
json_normalize(player_info_list) == player_info_list

\* df.drop_duplicates(subset=[...]): the first row of every key is kept.
drop_duplicates(df) ==
    LET kept == {k \in DOMAIN df :
                    \A j \in DOMAIN df : j < k => IdentityKey(df[j]) # IdentityKey(df[k])}
        RECURSIVE pick(_)
        pick(k) == IF k > Len(df) THEN <<>>
                   ELSE (IF k \in kept THEN <<df[k]>> ELSE <<>>) \o pick(k + 1)
    IN  pick(1)

NoneValue == [kind |-> "None", rows |-> <<>>]
DataFrame(rows) == [kind |-> "DataFrame", rows |-> rows]

\* Lines 253-260: the table is built and deduplicated, its shape printed;
\* the last statement is the bare expression, so the call returns None.
\* With no profile the frame has no columns and drop_duplicates raises
\* KeyError.
scrape_finish(player_info_list) ==
    IF player_info_list = <<>>
    THEN [raised |-> "KeyError", scraped_players_data_df |-> <<>>,
          returned |-> NoneValue]
    ELSE [raised |-> None,
          scraped_players_data_df |-> drop_duplicates(json_normalize(player_info_list)),
          returned |-> NoneValue]

DriverInit ==
    /\ drv = [pc |-> "loop", letter_i |-> 0, links |-> <<>>, link_i |-> 0,
              player_info_list |-> <<>>, log |-> <<>>, discovered |-> <<>>,
              slept |-> 0, raised |-> None,
              scraped_players_data_df |-> <<>>, returned |-> NoneValue]
    /\ inj = Idle /\ batch = Idle /\ lnk = Idle /\ ht = Idle /\ info = Idle

\* The next letter: gather_player_links on its index page.
DiscoverLinks ==
    /\ drv.pc = "loop"
    /\ drv.link_i = Len(drv.links)
    /\ drv.letter_i < Len(ALPHABETS_LIST)
    /\ \E page \in DriverIndexPages(ALPHABETS_LIST[drv.letter_i + 1]) :
          LET out == gather_player_links(page, ALPHABETS_LIST[drv.letter_i + 1],
                                         DefaultStartYear)
          IN  drv' = [drv EXCEPT
                         !.letter_i = drv.letter_i + 1,
                         !.links = out.links,
                         !.link_i = 0,
                         !.discovered = drv.discovered \o out.links,
                         !.raised = IF out.kind = "ok" THEN None ELSE out.kind,
                         !.pc = IF out.kind = "ok" THEN "loop" ELSE "raised"]
    /\ UNCHANGED <<inj, batch, lnk, ht, info>>

\* The next player link of the current letter.
ProcessLink ==
    /\ drv.pc = "loop"
    /\ drv.link_i < Len(drv.links)
    /\ \E fetch \in DriverFetches :
          LET step == try_player_link(drv.player_info_list, drv.slept, fetch)
          IN  drv' = [drv EXCEPT
                         !.link_i = drv.link_i + 1,
                         !.player_info_list = step.list,
                         !.slept = step.slept,
                         !.log = Append(drv.log,
                                        [link |-> drv.links[drv.link_i + 1],
                                         fetch |-> fetch,
                                         outcome |-> step.outcome,
                                         escaped |-> step.raised]),
                         !.raised = step.raised,
                         !.pc = IF step.raised = None THEN "loop" ELSE "raised"]
    /\ UNCHANGED <<inj, batch, lnk, ht, info>>

\* After the loops.
FinishPlayers ==
    /\ drv.pc = "loop"
    /\ drv.link_i = Len(drv.links)
    /\ drv.letter_i = Len(ALPHABETS_LIST)
    /\ LET fin == scrape_finish(drv.player_info_list)
       IN  drv' = [drv EXCEPT
                      !.scraped_players_data_df = fin.scraped_players_data_df,
                      !.returned = fin.returned,
                      !.raised = fin.raised,
                      !.pc = IF fin.raised = None THEN "done" ELSE "raised"]
    /\ UNCHANGED <<inj, batch, lnk, ht, info>>

DriverNext == DiscoverLinks \/ ProcessLink \/ FinishPlayers

SpecPlayers == DriverInit /\ [][DriverNext]_vars

Skipped(entry) == entry.outcome \in {"AttributeError", "ConnectionResetError"}

\* What each page the environment may answer parses to.
ParseOf ==
    [f \in {g \in DriverFetches : g.kind = "soup"} |-> gather_player_info(f.soup)]

\* The entries of the log whose link fetched and parsed, in order.
RECURSIVE ParsedProfiles(_)
ParsedProfiles(log) ==
    IF log = <<>> THEN <<>>
    ELSE (IF Head(log).outcome = "ok"
          THEN <<ParseOf[Head(log).fetch].player_info>>
          ELSE <<>>) \o ParsedProfiles(Tail(log))

ResetCount(log) ==
    Cardinality({k \in DOMAIN log : log[k].fetch.kind = "ConnectionResetError"})

\* C4: a link whose fetch or parse raises AttributeError is skipped; one that
\* hits a connection reset costs one 5-second sleep and is skipped; the
\* driver goes on with the next link, no link is requested twice, and the
\* accumulated list holds the profiles of the links that fetched and parsed,
\* in discovery order.
C4_SkipAndContinue ==
    /\ Len(drv.log) <= Len(drv.discovered)
    /\ \A k \in DOMAIN drv.log : drv.log[k].link = drv.discovered[k]
    /\ \A j, k \in DOMAIN drv.log : j # k => drv.log[j].link # drv.log[k].link
    /\ \A k \in DOMAIN drv.log :
          /\ (drv.log[k].fetch.kind = "ConnectionResetError")
                => drv.log[k].outcome = "ConnectionResetError"
          /\ (drv.log[k].fetch.kind = "soup"
                /\ ~drv.log[k].fetch.soup.info_tag.present)
                => drv.log[k].outcome = "AttributeError"
          /\ Skipped(drv.log[k]) => drv.log[k].escaped = None
          /\ k < Len(drv.log) => drv.log[k].escaped = None
    /\ drv.raised \notin {"AttributeError", "ConnectionResetError"}
    /\ drv.player_info_list = ParsedProfiles(drv.log)
    /\ drv.slept = 5 * ResetCount(drv.log)
    /\ (drv.pc = "done" => Len(drv.log) = Len(drv.discovered))

\* A run that skipped a page without info container, then slept through a
\* connection reset, then parsed a profile, and finished.
C4_Witness ==
    /\ drv.pc = "done"
    /\ Len(drv.log) >= 3
    /\ drv.log[1].outcome = "AttributeError"
    /\ drv.log[2].outcome = "ConnectionResetError"
    /\ drv.log[3].outcome = "ok"
    /\ drv.slept = 5
    /\ Len(drv.player_info_list) = 1

KeysOf(rows) == {IdentityKey(rows[k]) : k \in DOMAIN rows}

\* C5: the final output of scrape_nfl_player_data is the deduplicated table:
\* exactly one record for every identity key among the accumulated profiles,
\* no two records sharing a key.
C5_OutputIsDeduplicatedTable ==
    drv.pc = "done"
    => /\ drv.returned.kind = "DataFrame"
       /\ KeysOf(drv.returned.rows) = KeysOf(drv.player_info_list)
       /\ \A j, k \in DOMAIN drv.returned.rows :
             j # k => IdentityKey(drv.returned.rows[j])
                        # IdentityKey(drv.returned.rows[k])

=============================================================================
